---- MODULE Spec2Model ----
(***************************************************************************)
(* The three model download scripts of RealtimeWhisper-Trans:              *)
(*   download_model.py        ("opus")  manifest fetcher, urlretrieve      *)
(*   download_modelscope.py   ("ms")    manifest fetcher, urlopen + write  *)
(*   download_argos_model.py  ("argos") archive installer                  *)
(* Each script is a sequential process working on its own directory.  The  *)
(* scripts are started one at a time; the directories persist between the  *)
(* runs, everything else is local to one run.                              *)
(***************************************************************************)
EXTENDS Integers, Sequences, FiniteSets, TLC

\* Number of manifest entries modelled for each manifest fetcher.
NumFiles == 2
\* Number of script invocations in one behaviour.
MaxRuns == 3

Scripts == {"opus", "ms", "argos"}

\* download_model.FILES / download_modelscope.FILES, by position.
OPUS_FILES == 1..NumFiles
MS_FILES == 1..NumFiles

\* What is on disk at one path: nothing, a zero-length file, a file holding
\* part of the remote content, a file holding all of it.
FileState == {"absent", "empty", "partial", "complete"}

\* Member paths an archive can hold, as path components below MODEL_DIR.
ArchPaths == {<<"model", "weights">>, <<"en_zh", "model">>}

\* The archives the server may send: one member at least.
Archives == (SUBSET ArchPaths) \ {{}}

\* Exceptions that derive from Exception, and those that do not.
ExceptionClass == {"URLError", "HTTPError", "timeout", "OSError", "BadZipFile"}
Raisable == ExceptionClass \cup {"KeyboardInterrupt"}

\* What the call made at each program position can raise.
RaisedAt(p) ==
  CASE p = "try" -> {"URLError", "HTTPError", "timeout", "KeyboardInterrupt"}
    [] p = "connected" -> {"OSError", "KeyboardInterrupt"}
    [] p = "writing" -> {"timeout", "OSError", "KeyboardInterrupt"}
    [] p = "extract" -> {"BadZipFile", "OSError", "KeyboardInterrupt"}
    [] OTHER -> {}

Terminal == {"idle", "done", "installed", "skipped", "failed", "killed"}

VARIABLES
  script,         \* the script whose process runs (or ran last)
  pc,             \* position of that process
  runs,           \* script invocations so far
  idx,            \* manifest entry the loop is at
  outcome,        \* per entry: pending, present, fetched, failed
  requests,       \* per entry: network requests issued in this run
  reached,        \* per entry: what was on disk when the loop reached it
  success_count,  \* download_modelscope.main's counter
  summary,        \* which closing message download_modelscope.main printed
  killedBy,       \* the exception that ended the process, if one did
  archive,        \* members of the archive downloaded in this run
  extractedNow,   \* members extracted in this run
  zipRemoved,     \* os.remove(zip_path) was executed in this run
  atFailure,      \* the archive installer's state when its except clause ran
  afterInstall,   \* this run follows an error-free install run
  opusDir,        \* Models/opus-mt-en-zh, per entry
  msDir,          \* Models/csanmt-en-zh, per entry
  msFetched,      \* per entry: some fetch of it has completed in some run
  argosZip,       \* Models/argos-translate/model.zip
  argosExtracted, \* member paths present under Models/argos-translate
  lastExit        \* per script: whether its last run installed the archive,
                  \* or was killed while writing a file and kept or removed it

runVars == <<idx, outcome, requests, reached, success_count, summary, killedBy,
             archive, extractedNow, zipRemoved, atFailure, afterInstall>>
dirVars == <<opusDir, msDir, msFetched, argosZip, argosExtracted>>
vars == <<script, pc, runs, runVars, dirVars, lastExit>>

NoFailure == [stage |-> "none", zip |-> "absent", extracted |-> {}]

\* os.path.exists
PathExistsComplete(f) == f = "complete"
PathExists(f) == f # "absent"

\* How a process killed by an uncaught exception left the file it was writing.
KilledExit(before, after) ==
  IF before \in {"empty", "partial"}
  THEN IF PathExists(after) THEN "killed_kept" ELSE "killed_removed"
  ELSE "other"

Init ==
  /\ script = "none"
  /\ pc = "idle"
  /\ runs = 0
  /\ idx = 1
  /\ outcome = [i \in 1..NumFiles |-> "pending"]
  /\ requests = [i \in 1..NumFiles |-> 0]
  /\ reached = [i \in 1..NumFiles |-> "unreached"]
  /\ success_count = 0
  /\ summary = "none"
  /\ killedBy = "none"
  /\ archive = {}
  /\ extractedNow = {}
  /\ zipRemoved = FALSE
  /\ atFailure = NoFailure
  /\ afterInstall = FALSE
  /\ opusDir = [i \in OPUS_FILES |-> "absent"]
  /\ msDir = [i \in MS_FILES |-> "absent"]
  /\ msFetched = [i \in MS_FILES |-> FALSE]
  /\ argosZip = "absent"
  /\ argosExtracted = {}
  /\ lastExit = [s \in Scripts |-> "other"]

\* A script is started: a fresh process, the directories as the earlier runs
\* left them.
StartRun(s) ==
  /\ pc \in Terminal
  /\ runs < MaxRuns
  /\ script' = s
  /\ runs' = runs + 1
  /\ idx' = 1
  /\ outcome' = [i \in 1..NumFiles |-> "pending"]
  /\ requests' = [i \in 1..NumFiles |-> 0]
  /\ reached' = [i \in 1..NumFiles |-> "unreached"]
  /\ success_count' = 0
  /\ summary' = "none"
  /\ killedBy' = "none"
  /\ archive' = {}
  /\ extractedNow' = {}
  /\ zipRemoved' = FALSE
  /\ atFailure' = NoFailure
  /\ afterInstall' = (s = "argos" /\ lastExit["argos"] = "installed")

(***************************************************************************)
(* download_model.py                                                       *)
(***************************************************************************)

\* except Exception (line 63)
opus_catches_narrow(e) == e \in {"URLError", "HTTPError"}
opus_catches(e) == e \in ExceptionClass

\* The except block's effect on the directory (lines 63-66); an exception the
\* clause does not catch leaves the directory as it is.
opus_except_bare(e, dir, i) ==
  IF PathExists(dir[i]) THEN [dir EXCEPT ![i] = "absent"] ELSE dir
opus_except(e, dir, i) ==
  IF e \in ExceptionClass /\ PathExists(dir[i])
  THEN [dir EXCEPT ![i] = "absent"]
  ELSE dir

\* The for loop goes on with the next entry after the except block (line 49).
opus_continue_retry(i) == i
opus_continue(i) == i + 1

\* main, lines 41-47
opus_main ==
  /\ StartRun("opus")
  /\ pc' = "loop"
  /\ lastExit' = [lastExit EXCEPT !["opus"] = "other"]
  /\ UNCHANGED dirVars

\* main, lines 49-58: one pass of the loop up to the try statement
opus_main_entry ==
  /\ script = "opus" /\ pc = "loop" /\ idx <= NumFiles
  /\ reached' = [reached EXCEPT ![idx] = opusDir[idx]]
  /\ IF PathExists(opusDir[idx])
     THEN /\ outcome' = [outcome EXCEPT ![idx] = "present"]
          /\ idx' = idx + 1
          /\ pc' = "loop"
     ELSE /\ pc' = "try"
          /\ UNCHANGED <<outcome, idx>>
  /\ UNCHANGED <<script, runs, requests, success_count, summary, killedBy,
                 archive, extractedNow, zipRemoved, atFailure, afterInstall,
                 dirVars, lastExit>>

\* urlretrieve: the request is issued and answered
opus_urlopen ==
  /\ script = "opus" /\ pc = "try"
  /\ requests' = [requests EXCEPT ![idx] = @ + 1]
  /\ pc' = "connected"
  /\ UNCHANGED <<script, runs, idx, outcome, reached, success_count, summary,
                 killedBy, archive, extractedNow, zipRemoved, atFailure,
                 afterInstall, dirVars, lastExit>>

\* urlretrieve: open(filename, 'wb')
opus_open ==
  /\ script = "opus" /\ pc = "connected"
  /\ opusDir' = [opusDir EXCEPT ![idx] = "empty"]
  /\ pc' = "writing"
  /\ UNCHANGED <<script, runs, runVars, msDir, msFetched, argosZip,
                 argosExtracted, lastExit>>

\* urlretrieve: a block is read and written, more are to come
opus_write_block ==
  /\ script = "opus" /\ pc = "writing" /\ opusDir[idx] = "empty"
  /\ opusDir' = [opusDir EXCEPT ![idx] = "partial"]
  /\ UNCHANGED <<script, pc, runs, runVars, msDir, msFetched, argosZip,
                 argosExtracted, lastExit>>

\* download_file returns; lines 61-62
opus_downloaded ==
  /\ script = "opus" /\ pc = "writing"
  /\ opusDir' = [opusDir EXCEPT ![idx] = "complete"]
  /\ outcome' = [outcome EXCEPT ![idx] = "fetched"]
  /\ idx' = idx + 1
  /\ pc' = "loop"
  /\ UNCHANGED <<script, runs, requests, reached, success_count, summary,
                 killedBy, archive, extractedNow, zipRemoved, atFailure,
                 afterInstall, msDir, msFetched, argosZip, argosExtracted,
                 lastExit>>

\* An exception leaves the try body (lines 59-66).
opus_raise(e) ==
  /\ script = "opus" /\ e \in RaisedAt(pc)
  /\ requests' = IF pc = "try" THEN [requests EXCEPT ![idx] = @ + 1] ELSE requests
  /\ opusDir' = opus_except(e, opusDir, idx)
  /\ IF opus_catches(e)
     THEN /\ outcome' = [outcome EXCEPT ![idx] = "failed"]
          /\ idx' = opus_continue(idx)
          /\ pc' = "loop"
          /\ UNCHANGED <<killedBy, lastExit>>
     ELSE /\ pc' = "killed"
          /\ killedBy' = e
          /\ lastExit' = [lastExit EXCEPT
                 !["opus"] = KilledExit(opusDir[idx], opusDir'[idx])]
          /\ UNCHANGED <<outcome, idx>>
  /\ UNCHANGED <<script, runs, reached, success_count, summary, archive,
                 extractedNow, zipRemoved, atFailure, afterInstall, msDir,
                 msFetched, argosZip, argosExtracted>>

\* main, lines 68-78
opus_main_summary ==
  /\ script = "opus" /\ pc = "loop" /\ idx > NumFiles
  /\ pc' = "done"
  /\ lastExit' = [lastExit EXCEPT !["opus"] = "other"]
  /\ UNCHANGED <<script, runs, runVars, dirVars>>

(***************************************************************************)
(* download_modelscope.py                                                  *)
(***************************************************************************)

\* except Exception (line 46)
ms_catches(e) == e \in ExceptionClass

\* The except block's effect on the directory (lines 46-48): none.
ms_except(e, dir, i) == dir

\* if download_file(...): success_count += 1 (lines 61-62)
ms_count_always(count, ok) == count + 1
ms_count(count, ok) == IF ok THEN count + 1 ELSE count

\* The closing message (lines 66-70).
ms_message(count) == IF count = NumFiles THEN "all_ok" ELSE "some_failed"

\* main, lines 51-58
ms_main ==
  /\ StartRun("ms")
  /\ pc' = "loop"
  /\ lastExit' = [lastExit EXCEPT !["ms"] = "other"]
  /\ UNCHANGED dirVars

\* main, lines 59-62, and download_file, lines 28-33: the call up to the try
\* statement, and its return when the path exists
ms_download_file ==
  /\ script = "ms" /\ pc = "loop" /\ idx <= NumFiles
  /\ reached' = [reached EXCEPT ![idx] = msDir[idx]]
  /\ IF PathExists(msDir[idx])
     THEN /\ outcome' = [outcome EXCEPT ![idx] = "present"]
          /\ success_count' = ms_count(success_count, TRUE)
          /\ idx' = idx + 1
          /\ pc' = "loop"
     ELSE /\ pc' = "try"
          /\ UNCHANGED <<outcome, success_count, idx>>
  /\ UNCHANGED <<script, runs, requests, summary, killedBy, archive,
                 extractedNow, zipRemoved, atFailure, afterInstall, dirVars,
                 lastExit>>

\* urlopen(req, timeout=300) answers (line 38)
ms_urlopen ==
  /\ script = "ms" /\ pc = "try"
  /\ requests' = [requests EXCEPT ![idx] = @ + 1]
  /\ pc' = "connected"
  /\ UNCHANGED <<script, runs, idx, outcome, reached, success_count, summary,
                 killedBy, archive, extractedNow, zipRemoved, atFailure,
                 afterInstall, dirVars, lastExit>>

\* open(path, 'wb') (line 39)
ms_open ==
  /\ script = "ms" /\ pc = "connected"
  /\ msDir' = [msDir EXCEPT ![idx] = "empty"]
  /\ pc' = "writing"
  /\ UNCHANGED <<script, runs, runVars, opusDir, msFetched, argosZip,
                 argosExtracted, lastExit>>

\* f.write has written part of the body (line 40)
ms_write_part ==
  /\ script = "ms" /\ pc = "writing" /\ msDir[idx] = "empty"
  /\ msDir' = [msDir EXCEPT ![idx] = "partial"]
  /\ UNCHANGED <<script, pc, runs, runVars, opusDir, msFetched, argosZip,
                 argosExtracted, lastExit>>

\* download_file, lines 40-44, returns True; main, line 62
ms_downloaded ==
  /\ script = "ms" /\ pc = "writing"
  /\ msDir' = [msDir EXCEPT ![idx] = "complete"]
  /\ msFetched' = [msFetched EXCEPT ![idx] = TRUE]
  /\ outcome' = [outcome EXCEPT ![idx] = "fetched"]
  /\ success_count' = ms_count(success_count, TRUE)
  /\ idx' = idx + 1
  /\ pc' = "loop"
  /\ UNCHANGED <<script, runs, requests, reached, summary, killedBy, archive,
                 extractedNow, zipRemoved, atFailure, afterInstall, opusDir,
                 argosZip, argosExtracted, lastExit>>

\* An exception leaves the try body (lines 34-48); caught, download_file
\* returns False and main goes on (lines 59-62).
ms_raise(e) ==
  /\ script = "ms" /\ e \in RaisedAt(pc)
  /\ requests' = IF pc = "try" THEN [requests EXCEPT ![idx] = @ + 1] ELSE requests
  /\ msDir' = ms_except(e, msDir, idx)
  /\ IF ms_catches(e)
     THEN /\ outcome' = [outcome EXCEPT ![idx] = "failed"]
          /\ success_count' = ms_count(success_count, FALSE)
          /\ idx' = idx + 1
          /\ pc' = "loop"
          /\ UNCHANGED <<killedBy, lastExit>>
     ELSE /\ pc' = "killed"
          /\ killedBy' = e
          /\ lastExit' = [lastExit EXCEPT
                 !["ms"] = KilledExit(msDir[idx], msDir'[idx])]
          /\ UNCHANGED <<outcome, success_count, idx>>
  /\ UNCHANGED <<script, runs, reached, summary, archive, extractedNow,
                 zipRemoved, atFailure, afterInstall, opusDir, msFetched,
                 argosZip, argosExtracted>>

\* main, lines 64-71
ms_main_summary ==
  /\ script = "ms" /\ pc = "loop" /\ idx > NumFiles
  /\ summary' = ms_message(success_count)
  /\ pc' = "done"
  /\ lastExit' = [lastExit EXCEPT !["ms"] = "other"]
  /\ UNCHANGED <<script, runs, idx, outcome, requests, reached, success_count,
                 killedBy, archive, extractedNow, zipRemoved, atFailure,
                 afterInstall, dirVars>>

(***************************************************************************)
(* download_argos_model.py                                                 *)
(***************************************************************************)

\* os.path.exists(os.path.join(MODEL_DIR, "model")) (line 22)
MarkerExists(extracted) == \E p \in extracted : p[1] = "model"

\* except Exception (line 45)
argos_catches_narrow(e) == e \in {"URLError", "HTTPError"}
argos_catches(e) == e \in ExceptionClass

\* The except block's effect on model.zip (lines 45-49): none.
argos_except_rollback(zip) == "absent"
argos_except(zip) == zip

\* The with block of line 39 has ended: extractall has written every member.
extractall_unfinished(members, done) == TRUE
extractall_finished(members, done) == done = members

\* download_and_extract, lines 17-27
download_and_extract ==
  /\ StartRun("argos")
  /\ pc' = IF MarkerExists(argosExtracted) THEN "skipped" ELSE "try"
  /\ lastExit' = [lastExit EXCEPT !["argos"] = "other"]
  /\ UNCHANGED dirVars

\* urlretrieve: the request is issued and answered (line 36)
argos_urlopen ==
  /\ script = "argos" /\ pc = "try"
  /\ requests' = [requests EXCEPT ![1] = @ + 1]
  /\ pc' = "connected"
  /\ UNCHANGED <<script, runs, idx, outcome, reached, success_count, summary,
                 killedBy, archive, extractedNow, zipRemoved, atFailure,
                 afterInstall, dirVars, lastExit>>

\* urlretrieve: open(zip_path, 'wb')
argos_open ==
  /\ script = "argos" /\ pc = "connected"
  /\ argosZip' = "empty"
  /\ pc' = "writing"
  /\ UNCHANGED <<script, runs, runVars, opusDir, msDir, msFetched,
                 argosExtracted, lastExit>>

\* urlretrieve: a block is read and written, more are to come
argos_write_block ==
  /\ script = "argos" /\ pc = "writing" /\ argosZip = "empty"
  /\ argosZip' = "partial"
  /\ UNCHANGED <<script, pc, runs, runVars, opusDir, msDir, msFetched,
                 argosExtracted, lastExit>>

\* urlretrieve returns: model.zip holds the archive the server sent (lines 36-37)
argos_retrieved(members) ==
  /\ script = "argos" /\ pc = "writing"
  /\ argosZip' = "complete"
  /\ archive' = members
  /\ pc' = "extract"
  /\ UNCHANGED <<script, runs, idx, outcome, requests, reached, success_count,
                 summary, killedBy, extractedNow, zipRemoved, atFailure,
                 afterInstall, opusDir, msDir, msFetched, argosExtracted,
                 lastExit>>

\* extractall writes one member (line 40)
argos_extract(m) ==
  /\ script = "argos" /\ pc = "extract"
  /\ m \in archive \ extractedNow
  /\ extractedNow' = extractedNow \cup {m}
  /\ argosExtracted' = argosExtracted \cup {m}
  /\ UNCHANGED <<script, pc, runs, idx, outcome, requests, reached,
                 success_count, summary, killedBy, archive, zipRemoved,
                 atFailure, afterInstall, opusDir, msDir, msFetched, argosZip,
                 lastExit>>

\* os.remove(zip_path) and the return (lines 42-43)
argos_remove ==
  /\ script = "argos" /\ pc = "extract"
  /\ extractall_finished(archive, extractedNow)
  /\ argosZip' = "absent"
  /\ zipRemoved' = TRUE
  /\ pc' = "installed"
  /\ lastExit' = [lastExit EXCEPT !["argos"] = "installed"]
  /\ UNCHANGED <<script, runs, idx, outcome, requests, reached, success_count,
                 summary, killedBy, archive, extractedNow, atFailure,
                 afterInstall, opusDir, msDir, msFetched, argosExtracted>>

\* An exception leaves the try body (lines 35-49); caught, the instructions
\* are printed and download_and_extract returns.
argos_raise(e) ==
  /\ script = "argos" /\ e \in RaisedAt(pc)
  /\ requests' = IF pc = "try" THEN [requests EXCEPT ![1] = @ + 1] ELSE requests
  /\ IF argos_catches(e)
     THEN /\ pc' = "failed"
          /\ argosZip' = argos_except(argosZip)
          /\ atFailure' = [stage |-> pc, zip |-> argosZip,
                           extracted |-> argosExtracted]
          /\ lastExit' = [lastExit EXCEPT !["argos"] = "other"]
          /\ UNCHANGED killedBy
     ELSE /\ pc' = "killed"
          /\ killedBy' = e
          /\ lastExit' = [lastExit EXCEPT !["argos"] =
                 KilledExit(IF pc = "writing" THEN argosZip ELSE "absent",
                            argosZip)]
          /\ UNCHANGED <<argosZip, atFailure>>
  /\ UNCHANGED <<script, runs, idx, outcome, reached, success_count, summary,
                 archive, extractedNow, zipRemoved, afterInstall, opusDir,
                 msDir, msFetched, argosExtracted>>

\* One step of the running process, or the start of the next one; E holds the
\* exceptions the environment may raise.
Step(E) ==
  \/ opus_main
  \/ opus_main_entry
  \/ opus_urlopen
  \/ opus_open
  \/ opus_write_block
  \/ opus_downloaded
  \/ \E e \in E : opus_raise(e)
  \/ opus_main_summary
  \/ ms_main
  \/ ms_download_file
  \/ ms_urlopen
  \/ ms_open
  \/ ms_write_part
  \/ ms_downloaded
  \/ \E e \in E : ms_raise(e)
  \/ ms_main_summary
  \/ download_and_extract
  \/ argos_urlopen
  \/ argos_open
  \/ argos_write_block
  \/ \E members \in Archives : argos_retrieved(members)
  \/ \E m \in ArchPaths : argos_extract(m)
  \/ argos_remove
  \/ \E e \in E : argos_raise(e)

Next == Step(Raisable)

Spec == Init /\ [][Next]_vars

\* The runs in which no process is interrupted: every exception raised is a
\* failure (an Exception).
NextFailuresOnly == Step(ExceptionClass)

SpecFailuresOnly == Init /\ [][NextFailuresOnly]_vars

(***************************************************************************)
(* Properties                                                              *)
(***************************************************************************)

\* The directory of the manifest fetcher that runs.
ManifestDir == IF script = "opus" THEN opusDir ELSE msDir

Final == {"present", "fetched", "failed"}

\* C1: in both manifest fetchers, an entry whose path exists when the loop
\* reaches it (whatever the file holds) gets no network request, its file is
\* left exactly as it was, and it is reported as already present.
C1_PresentNeverRefetched ==
  script \in {"opus", "ms"} =>
    \A i \in 1..NumFiles :
      reached[i] \in {"empty", "partial", "complete"} =>
        /\ requests[i] = 0
        /\ outcome[i] = "present"
        /\ ManifestDir[i] = reached[i]

C1_Witness ==
  /\ script = "opus" /\ pc = "done"
  /\ reached[1] = "partial" /\ outcome[1] = "present"
  /\ reached[2] = "empty" /\ outcome[2] = "present"

\* C2: in both manifest fetchers a failed fetch (an Exception of any kind, at
\* any point of the fetch) never ends the run: the process is never killed by
\* a failure, and a run that ends has reached its summary with every entry
\* processed, each absent one fetched exactly once.
C2_FailureNeverAborts ==
  script \in {"opus", "ms"} =>
    /\ pc = "killed" => killedBy \notin ExceptionClass
    /\ \A i \in 1..NumFiles : outcome[i] = "failed" => idx > i
    /\ pc = "done" =>
         \A i \in 1..NumFiles :
           /\ outcome[i] \in Final
           /\ reached[i] # "unreached"
           /\ reached[i] = "absent" => requests[i] = 1

C2_Witness ==
  /\ script = "opus" /\ pc = "done"
  /\ outcome[1] = "failed" /\ outcome[2] = "fetched"

\* C3: in both manifest fetchers, an entry whose fetch failed has no file at
\* its path afterwards.
C3_FailedLeavesNoFile ==
  script \in {"opus", "ms"} =>
    \A i \in 1..NumFiles : outcome[i] = "failed" => ManifestDir[i] = "absent"

\* C4: a run of download_and_extract that follows a run which downloaded,
\* extracted and removed the archive without error finds the marker: it
\* returns at once and issues no network request.
C4_SecondRunSkips ==
  (script = "argos" /\ afterInstall) => (pc = "skipped" /\ requests[1] = 0)

\* C5: in the archive installer a failure ends the run where it happened: the
\* download is not requested again, a failed download is followed by no
\* extraction, a failed download or extraction by no removal of model.zip,
\* model.zip and the extracted members stay as they were at the failure, and
\* the failure never kills the process (download_and_extract returns).
C5_FailureAbortsWithoutRollback ==
  script = "argos" =>
    /\ pc = "killed" => killedBy \notin ExceptionClass
    /\ pc = "failed" =>
         /\ atFailure.stage \in {"try", "connected", "writing", "extract"}
         /\ requests[1] = 1
         /\ ~zipRemoved
         /\ argosZip = atFailure.zip
         /\ argosExtracted = atFailure.extracted
         /\ atFailure.stage # "extract" => extractedNow = {}
         /\ atFailure.stage = "extract" => argosZip = "complete"

C5_Witness ==
  /\ script = "argos" /\ pc = "failed"
  /\ atFailure.stage = "extract"
  /\ extractedNow # {} /\ extractedNow # archive
  /\ argosZip = "complete"

\* C6: in the ModelScope fetcher success_count is the number of entries found
\* present or fetched, lies in 0..total, and the all-succeeded message is
\* printed exactly when no entry failed (the fallback otherwise).
C6_SummaryCount ==
  script = "ms" =>
    /\ success_count =
         Cardinality({i \in MS_FILES : outcome[i] \in {"present", "fetched"}})
    /\ success_count \in 0..NumFiles
    /\ pc = "done" =>
         /\ summary \in {"all_ok", "some_failed"}
         /\ summary = "all_ok" <=> \A i \in MS_FILES : outcome[i] # "failed"
    /\ pc # "done" => summary = "none"

C6_Witness ==
  /\ script = "ms" /\ pc = "done"
  /\ outcome[1] = "failed" /\ outcome[2] = "fetched"
  /\ success_count = 1 /\ summary = "some_failed"

C8_EntryOrder ==
  /\ \A i \in 1..NumFiles : requests[i] <= 1
  /\ script \in {"opus", "ms"} =>
       \A i \in 1..NumFiles :
         /\ i < idx => outcome[i] \in Final
         /\ i >= idx => outcome[i] = "pending"
         /\ i > idx => requests[i] = 0 /\ reached[i] = "unreached"
         /\ outcome[i] \in {"fetched", "failed"} => requests[i] = 1
         /\ outcome[i] = "present" => requests[i] = 0

C8_NoWayBack ==
  runs' = runs =>
    \A i \in 1..NumFiles :
      outcome[i] \in Final =>
        outcome'[i] = outcome[i] /\ requests'[i] = requests[i]

\* C8: the order and the at-most-one request hold in every state, and no step
\* of a run changes a settled entry.
C8_OneFetchPerEntry == []C8_EntryOrder /\ [][C8_NoWayBack]_vars

C8_Witness ==
  /\ script = "ms" /\ pc = "writing" /\ idx = 2
  /\ outcome[1] = "failed" /\ requests = [i \in 1..NumFiles |-> IF i <= 2 THEN 1 ELSE 0]

\* The file the running process is at.
CurrentFile(s) ==
  CASE s = "opus" -> opusDir[idx]
    [] s = "ms" -> msDir[idx]
    [] OTHER -> argosZip

\* C9 as stated: of the three scripts interrupted while writing a file,
\* exactly two leave the file and the third removes it.
C9_TwoOfThreeKeep ==
  (\A s \in Scripts : lastExit[s] \in {"killed_kept", "killed_removed"}) =>
    /\ Cardinality({s \in Scripts : lastExit[s] = "killed_kept"}) = 2
    /\ Cardinality({s \in Scripts : lastExit[s] = "killed_removed"}) = 1

\* C9, amended: each of the three scripts, interrupted while writing a file,
\* leaves the partly written file on disk; none removes it.
C9_AllThreeKeep ==
  \A s \in Scripts :
    /\ lastExit[s] # "killed_removed"
    /\ (script = s /\ pc = "killed" /\ lastExit[s] = "killed_kept") =>
         CurrentFile(s) \in {"empty", "partial"}

C9_Witness ==
  \A s \in Scripts : lastExit[s] = "killed_kept"

\* C10: the ModelScope fetcher, started on an empty directory, counts an entry
\* as success only if some fetch of that entry, in this run or an earlier one,
\* has completed.
C10_SuccessNeedsCompletedFetch ==
  script = "ms" =>
    \A i \in MS_FILES :
      outcome[i] \in {"present", "fetched"} => msFetched[i]
====
